---- MODULE Spec2Model ----
(***************************************************************************)
(* Model of tictail/resource/base.py: ApiObject, Resource, Collection and  *)
(* the capability mixins (Get, GetById, List, Create, Delete, DeleteById). *)
(*                                                                         *)
(* A Python string is modelled as a sequence of tokens: the token "/" is   *)
(* the one-character string "/", every other token is a non-empty run of   *)
(* characters without a slash.  Concatenation is \o.  Every string the     *)
(* code builds puts a "/" between two runs, so the representation of a     *)
(* string is unique and token equality is string equality.                 *)
(***************************************************************************)
EXTENDS Integers, Sequences, FiniteSets, TLC

VARIABLES _internal_attrs, objs, last, steps

vars == <<_internal_attrs, objs, last, steps>>

(* ------------------------------ bounds --------------------------------- *)

MaxSteps == 2

MaxObjs == 4

MaxList == 2

(* ------------------------------ values --------------------------------- *)

NoneV == [t |-> "none", i |-> 0, s |-> <<>>]

IntV(n) == [t |-> "int", i |-> n, s |-> <<>>]

StrV(str) == [t |-> "str", i |-> 0, s |-> str]

ObjV(ref) == [t |-> "obj", i |-> ref, s |-> <<>>]

\* Python truth value of a value (`if self.parent:`, `if not url:`).
Truthy(v) ==
    CASE v.t = "none" -> FALSE
      [] v.t = "int" -> v.i # 0
      [] v.t = "str" -> v.s # <<>>
      [] OTHER -> TRUE

\* "{0}".format(v): the text of a value.
Format(v) ==
    CASE v.t = "none" -> <<"None">>
      [] v.t = "int" -> <<ToString(v.i)>>
      [] v.t = "str" -> v.s
      [] OTHER -> <<"<object>">>

(* ------------------------------- kinds --------------------------------- *)

\* Resource._internal_attrs as the class body defines it.
INTERNAL_ATTRS0 ==
    {"transport", "parent", "subresources", "identifier", "_data_keys",
     "singleton", "endpoint"}

\* The concrete kinds: a store with a singleton theme and a cards collection.
Kinds ==
    [Store |-> [type |-> "Resource", endpoint |-> <<"stores">>, singleton |-> FALSE,
                identifier |-> "id", subresources |-> <<"Theme", "Cards">>,
                resource |-> "", caps |-> {"Get"}],
     Theme |-> [type |-> "Resource", endpoint |-> <<"theme">>, singleton |-> TRUE,
                identifier |-> "id", subresources |-> <<>>,
                resource |-> "", caps |-> {"Get", "Delete"}],
     Card  |-> [type |-> "Resource", endpoint |-> <<"cards">>, singleton |-> FALSE,
                identifier |-> "id", subresources |-> <<>>,
                resource |-> "", caps |-> {"Get"}],
     Cards |-> [type |-> "Collection", endpoint |-> <<>>, singleton |-> FALSE,
                identifier |-> "", subresources |-> <<>>,
                resource |-> "Card", caps |-> {"GetById", "List", "Create", "DeleteById"}]]

KindNames == DOMAIN Kinds

ResourceKinds == {c \in KindNames : Kinds[c].type = "Resource"}

CollectionKinds == {c \in KindNames : Kinds[c].type = "Collection"}

\* self.__class__.__name__.lower()
attr_name(cls) ==
    CASE cls = "Store" -> "store"
      [] cls = "Theme" -> "theme"
      [] cls = "Card" -> "card"
      [] cls = "Cards" -> "cards"

(* ------------------------------ strings -------------------------------- *)

_remove_slashes(url) ==
    IF url = <<>> THEN url
    ELSE LET start == IF url[1] = "/" THEN 2 ELSE 1
             end == IF url[Len(url)] = "/" THEN Len(url) - 1 ELSE Len(url)
         IN SubSeq(url, start, end)

(* ------------------------------ objects -------------------------------- *)

\* An instance.  attrs holds the attributes set through data or setattr,
\* data_keys is self._data_keys.  owner and iso_keys are history fields:
\* the instance that created this one as a sub-resource (0 if none), and the
\* keys the instance would track had no other instance ever existed.
NewObj(cls, transport, parent) ==
    [cls |-> cls, transport |-> transport, parent |-> parent,
     attrs |-> <<>>, data_keys |-> {}, owner |-> 0, iso_keys |-> {}]

HasAttr(o, k) == k \in DOMAIN o.attrs

SubAttrNames(cls) ==
    {attr_name(Kinds[cls].subresources[i]) : i \in DOMAIN Kinds[cls].subresources}

\* Resource.__setattr__
Resource_setattr(o, internal, k, v) ==
    [o EXCEPT !.attrs = [x \in DOMAIN o.attrs \cup {k} |->
                            IF x = k THEN v ELSE o.attrs[x]],
              !.data_keys = IF k \notin internal THEN @ \cup {k} ELSE @]

\* Resource.pk: [err |-> TRUE] stands for the ValueError.
Resource_pk(o) ==
    LET identifier == Kinds[o.cls].identifier
    IN IF ~HasAttr(o, identifier)
       THEN [err |-> TRUE, val |-> NoneV]
       ELSE [err |-> FALSE, val |-> o.attrs[identifier]]

\* Resource.uri that drops the id segment only from a singleton without an id.
Resource_uri_mut(o) ==
    LET u1 == IF Truthy(o.parent)
              THEN <<"/">> \o _remove_slashes(o.parent.s)
              ELSE <<>>
        u2 == u1 \o <<"/">> \o Kinds[o.cls].endpoint
    IN IF ~Kinds[o.cls].singleton \/ ~Resource_pk(o).err
       THEN IF Resource_pk(o).err
            THEN [err |-> TRUE, val |-> <<>>]
            ELSE [err |-> FALSE, val |-> u2 \o <<"/">> \o Format(Resource_pk(o).val)]
       ELSE [err |-> FALSE, val |-> u2]

\* Resource.uri
Resource_uri(o) ==
    LET u1 == IF Truthy(o.parent)
              THEN <<"/">> \o _remove_slashes(o.parent.s)
              ELSE <<>>
        u2 == u1 \o <<"/">> \o Kinds[o.cls].endpoint
    IN IF ~Kinds[o.cls].singleton
       THEN IF Resource_pk(o).err
            THEN [err |-> TRUE, val |-> <<>>]
            ELSE [err |-> FALSE, val |-> u2 \o <<"/">> \o Format(Resource_pk(o).val)]
       ELSE [err |-> FALSE, val |-> u2]

\* Collection.uri that joins parent and endpoint without trimming the parent.
Collection_uri_mut(o) ==
    LET endpoint == _remove_slashes(Kinds[Kinds[o.cls].resource].endpoint)
    IN IF ~Truthy(o.parent)
       THEN [err |-> FALSE, val |-> <<"/">> \o endpoint]
       ELSE [err |-> FALSE, val |-> <<"/">> \o o.parent.s \o <<"/">> \o endpoint]

\* Collection.uri
Collection_uri(o) ==
    LET endpoint == _remove_slashes(Kinds[Kinds[o.cls].resource].endpoint)
    IN IF ~Truthy(o.parent)
       THEN [err |-> FALSE, val |-> <<"/">> \o endpoint]
       ELSE [err |-> FALSE,
             val |-> <<"/">> \o _remove_slashes(o.parent.s) \o <<"/">> \o endpoint]

\* self.uri, dispatched on the class of the instance.
uri(o) == IF Kinds[o.cls].type = "Resource" THEN Resource_uri(o) ELSE Collection_uri(o)

\* Resource.data_keys / data_items / to_dict
to_dict(o) == [k \in o.data_keys |-> o.attrs[k]]

(* ---------------------------- construction ----------------------------- *)

RECURSIVE Resource_init(_, _, _, _, _, _)
RECURSIVE instantiate_subresources(_, _, _, _)
RECURSIVE map_maker(_, _, _, _, _)

\* The outcome of a constructor: the heap and the class-level set after it,
\* whether it raised, and the reference of the new instance.
Outcome(heap, internal, err, ref) ==
    [objs |-> heap, internal |-> internal, err |-> err, ref |-> ref]

\* Collection.__init__: appends the new collection to the heap.
Collection_init(heap, internal, cls, transport, parent) ==
    Outcome(Append(heap, NewObj(cls, transport, parent)), internal, FALSE, Len(heap) + 1)

\* A sub-resource instantiated without the parent argument.
Instantiate_mut(heap, internal, cls, transport, parent) ==
    IF Kinds[cls].type = "Resource"
    THEN Resource_init(heap, internal, cls, transport, <<>>, NoneV)
    ELSE Collection_init(heap, internal, cls, transport, NoneV)

\* sub(self.transport, parent=self.uri) for a sub-resource class.
Instantiate(heap, internal, cls, transport, parent) ==
    IF Kinds[cls].type = "Resource"
    THEN Resource_init(heap, internal, cls, transport, <<>>, parent)
    ELSE Collection_init(heap, internal, cls, transport, parent)

\* The rest of one round of the loop, r being the outcome of sub(...):
\* self._internal_attrs.add(inst.attr_name); setattr(self, inst.attr_name, inst)
attach_subresource(self, sub, i, r) ==
    IF r.err
    THEN Outcome(r.objs, r.internal, TRUE, self)
    ELSE instantiate_subresources(
            [r.objs EXCEPT
               ![self] = Resource_setattr(@, r.internal \cup {attr_name(sub)},
                                          attr_name(sub), ObjV(r.ref)),
               ![r.ref].owner = self],
            r.internal \cup {attr_name(sub)}, self, i + 1)

\* One round of the loop, u being self.uri.
instantiate_subresource(heap, internal, self, sub, i, u) ==
    IF u.err
    THEN Outcome(heap, internal, TRUE, self)
    ELSE attach_subresource(self, sub, i,
            Instantiate(heap, internal, sub, heap[self].transport, StrV(u.val)))

\* Resource.instantiate_subresources, from the i-th declared sub-resource on.
instantiate_subresources(heap, internal, self, i) ==
    IF i > Len(Kinds[heap[self].cls].subresources)
    THEN Outcome(heap, internal, FALSE, self)
    ELSE instantiate_subresource(heap, internal, self,
            Kinds[heap[self].cls].subresources[i], i, Resource_uri(heap[self]))

\* Resource.__init__: data is a function from keys to values.
Resource_init(heap, internal, cls, transport, data, parent) ==
    instantiate_subresources(
       Append(heap, [NewObj(cls, transport, parent) EXCEPT
                       !.attrs = data,
                       !.data_keys = {k \in DOMAIN data : k \notin internal},
                       !.iso_keys = {k \in DOMAIN data : k \notin INTERNAL_ATTRS0}]),
       internal, Len(heap) + 1, 1)

\* The outcome of an instantiate_from_data: refs are the Records it returns.
Instances(heap, internal, err, refs) ==
    [objs |-> heap, internal |-> internal, err |-> err, refs |-> refs]

\* The rest of map(maker, data) once maker built (or failed to build) r.
map_made(c, items, refs, r) ==
    IF r.err
    THEN Instances(r.objs, r.internal, TRUE, refs)
    ELSE map_maker(r.objs, r.internal, c, items, Append(refs, r.ref))

\* map(maker, data): the Records for the items not yet in refs, in order.
map_maker(heap, internal, c, items, refs) ==
    IF Len(refs) = Len(items)
    THEN Instances(heap, internal, FALSE, refs)
    ELSE map_made(c, items, refs,
            Resource_init(heap, internal, Kinds[c.cls].resource, c.transport,
                          items[Len(refs) + 1], c.parent))

Reverse(q) == [i \in 1..Len(q) |-> q[Len(q) + 1 - i]]

\* instantiate_from_data that builds the Records last item first.
Collection_instantiate_from_data_mut(heap, internal, c, body) ==
    map_maker(heap, internal, c, Reverse(body.items), <<>>)

\* Collection.instantiate_from_data: a list gives the Records of its items,
\* a single mapping (held as body.items[1]) gives one Record.
Collection_instantiate_from_data(heap, internal, c, body) ==
    map_maker(heap, internal, c, body.items, <<>>)

\* The Record a Resource.instantiate_from_data returns.
one_instance(r) == Instances(r.objs, r.internal, r.err, IF r.err THEN <<>> ELSE <<r.ref>>)

\* Resource.instantiate_from_data
Resource_instantiate_from_data(heap, internal, o, body) ==
    one_instance(Resource_init(heap, internal, o.cls, o.transport, body.items[1], o.parent))

\* self.instantiate_from_data, dispatched on the class of the instance.
instantiate_from_data(heap, internal, o, body) ==
    IF Kinds[o.cls].type = "Resource"
    THEN Resource_instantiate_from_data(heap, internal, o, body)
    ELSE Collection_instantiate_from_data(heap, internal, o, body)

\* method.lower()
lower(method) ==
    CASE method = "GET" -> "get"
      [] method = "POST" -> "post"
      [] method = "DELETE" -> "delete"

\* ApiObject.request: the call the transport receives.
request(o, method, u, kw, val) ==
    [method |-> lower(method), uri |-> u, transport |-> o.transport,
     kw |-> kw, val |-> val]

(* ------------------------------ inputs --------------------------------- *)

\* The transports of the clients a Collection is made by; the Records a caller
\* builds itself take the transport of the first client.
Transports == {1, 2}

ResourceTransports == {1}

\* The parents a caller gives a Collection and a Resource.
Parents == {NoneV, StrV(<<"stores", "/", "1">>), StrV(<<"/", "stores", "/", "1", "/">>)}

ResourceParents == {NoneV, StrV(<<"/", "stores", "/", "1", "/">>)}

Keys == {"id", "theme"}

DataValues(k) == IF k = "id" THEN {IntV(1)} ELSE {StrV(<<"dark">>)}

SetValues(k) == IF k = "id" THEN {IntV(1), IntV(2)} ELSE {StrV(<<"dark">>)}

\* The data mappings a caller or a response body can carry.
Datas == UNION {[K -> {IntV(1), StrV(<<"dark">>)}] : K \in SUBSET Keys}

GoodDatas == {d \in Datas : \A k \in DOMAIN d : d[k] \in DataValues(k)}

\* The ids a caller passes to get(id) and delete(id).
Ids == {NoneV, IntV(5)}

\* Query parameters of all(**params).
Params == {<<>>, [limit |-> IntV(1)]}

One(d) == [list |-> FALSE, items |-> <<d>>]

Many(ds) == [list |-> TRUE, items |-> ds]

ListsOf(S) == UNION {[1..n -> S] : n \in 0..MaxList}

\* What the transport answers: it raises, or returns a (body, status) pair.
Statuses == {200, 201, 204}

Raised == [raised |-> TRUE, body |-> One(<<>>), status |-> 0]

Returned(body, status) == [raised |-> FALSE, body |-> body, status |-> status]

\* The mappings the bodies of the responses are drawn from.
ItemDatas == {d \in GoodDatas : DOMAIN d \in {{}, {"id"}}}

SingleResponses == {Raised} \cup {Returned(One(d), 200) : d \in ItemDatas}

ListResponses == {Raised} \cup {Returned(Many(ds), 200) : ds \in ListsOf(ItemDatas)}

DeleteResponses ==
    {Raised} \cup {Returned(One(d), st) : d \in {<<>>, [id |-> IntV(1)]}, st \in Statuses}

NoLast == [op |-> "none", self |-> 0, status |-> "ok", calls |-> <<>>,
           arg |-> <<>>, ret |-> <<>>, flag |-> FALSE, resp |-> Raised]

(* ------------------------------ actions -------------------------------- *)

Init ==
    /\ _internal_attrs = INTERNAL_ATTRS0
    /\ objs = <<>>
    /\ last = NoLast
    /\ steps = 0

\* The state after a constructor or instantiate_from_data call r of the
\* caller: a call that raised leaves no instance behind.
Called(op, self, arg, calls, resp, r, refs) ==
    /\ Len(r.objs) <= MaxObjs
    /\ _internal_attrs' = r.internal
    /\ objs' = IF r.err THEN objs ELSE r.objs
    /\ last' = [NoLast EXCEPT !.op = op, !.self = self, !.arg = arg,
                              !.status = IF r.err THEN "ValueError" ELSE "ok",
                              !.calls = calls, !.resp = resp,
                              !.ret = IF r.err THEN <<>> ELSE refs]

\* The state after the caller's constructor call r.
Constructed(op, arg, r) == Called(op, 0, arg, <<>>, Raised, r, <<r.ref>>)

\* The state after the caller's instantiate_from_data call r.
Instantiated(op, self, arg, calls, resp, r) == Called(op, self, arg, calls, resp, r, r.refs)

\* A caller constructs a Resource: cls(transport, data=data, parent=parent).
ConstructResource(cls, transport, data, parent) ==
    /\ steps < MaxSteps
    /\ steps' = steps + 1
    /\ Constructed("Resource", <<data>>,
                   Resource_init(objs, _internal_attrs, cls, transport, data, parent))

\* A caller constructs a Collection: cls(transport, parent=parent).
ConstructCollection(cls, transport, parent) ==
    /\ steps < MaxSteps
    /\ steps' = steps + 1
    /\ Constructed("Collection", <<>>,
                   Collection_init(objs, _internal_attrs, cls, transport, parent))

\* A caller assigns an attribute of a Resource: setattr(objs[self], k, v).
SetAttr(self, k, v) ==
    /\ steps < MaxSteps
    /\ Kinds[objs[self].cls].type = "Resource"
    /\ objs' = [objs EXCEPT ![self] =
                  [Resource_setattr(@, _internal_attrs, k, v) EXCEPT
                     !.iso_keys = IF k \notin INTERNAL_ATTRS0 \cup SubAttrNames(objs[self].cls)
                                  THEN @ \cup {k} ELSE @]]
    /\ last' = [NoLast EXCEPT !.op = "setattr", !.self = self, !.arg = <<k, v>>]
    /\ steps' = steps + 1
    /\ UNCHANGED _internal_attrs

\* The part shared by get, all and create: one request, then
\* self.instantiate_from_data(data) on the body the transport returned.
Fetch(op, self, arg, call, resp) ==
    /\ steps < MaxSteps
    /\ steps' = steps + 1
    /\ IF resp.raised
       THEN /\ last' = [NoLast EXCEPT !.op = op, !.self = self, !.arg = arg,
                                      !.status = "ApiError", !.calls = <<call>>]
            /\ UNCHANGED <<_internal_attrs, objs>>
       ELSE Instantiated(op, self, arg, <<call>>, resp,
               instantiate_from_data(objs, _internal_attrs, objs[self], resp.body))

\* self.uri raised the ValueError of pk before any request.
UriFails(op, self, arg) ==
    /\ steps < MaxSteps
    /\ steps' = steps + 1
    /\ last' = [NoLast EXCEPT !.op = op, !.self = self, !.arg = arg,
                              !.status = "ValueError"]
    /\ UNCHANGED <<_internal_attrs, objs>>

\* Get.get
Get_get(self, resp) ==
    /\ "Get" \in Kinds[objs[self].cls].caps
    /\ LET u == uri(objs[self])
       IN IF u.err THEN UriFails("get", self, <<>>)
          ELSE Fetch("get", self, <<>>,
                     request(objs[self], "GET", u.val, "", <<>>), resp)

\* GetById.get
GetById_get(self, id, resp) ==
    /\ "GetById" \in Kinds[objs[self].cls].caps
    /\ LET u == uri(objs[self])
       IN IF u.err THEN UriFails("get_by_id", self, <<id>>)
          ELSE Fetch("get_by_id", self, <<id>>,
                     request(objs[self], "GET", u.val \o <<"/">> \o Format(id), "", <<>>),
                     resp)

\* List.format_params
format_params(params) == params

\* List.all
List_all(self, params, resp) ==
    /\ "List" \in Kinds[objs[self].cls].caps
    /\ LET u == uri(objs[self])
       IN IF u.err THEN UriFails("all", self, <<params>>)
          ELSE Fetch("all", self, <<params>>,
                     request(objs[self], "GET", u.val, "params", format_params(params)),
                     resp)

\* Create.create
Create_create(self, body, resp) ==
    /\ "Create" \in Kinds[objs[self].cls].caps
    /\ LET u == uri(objs[self])
       IN IF u.err THEN UriFails("create", self, <<body>>)
          ELSE Fetch("create", self, <<body>>,
                     request(objs[self], "POST", u.val, "data", body), resp)

\* A delete that takes every returned status below 300 for a success.
delete_result_mut(status) == status < 300

\* The value a delete returns for the status the transport returned.
delete_result(status) == status = 204

\* The part shared by both deletes: one request, the result from the status.
Remove(op, self, arg, call, resp) ==
    /\ steps < MaxSteps
    /\ steps' = steps + 1
    /\ last' = IF resp.raised
               THEN [NoLast EXCEPT !.op = op, !.self = self, !.arg = arg,
                                   !.status = "ApiError", !.calls = <<call>>]
               ELSE [NoLast EXCEPT !.op = op, !.self = self, !.arg = arg,
                                   !.calls = <<call>>, !.resp = resp,
                                   !.flag = delete_result(resp.status)]
    /\ UNCHANGED <<_internal_attrs, objs>>

\* Delete.delete
Delete_delete(self, resp) ==
    /\ "Delete" \in Kinds[objs[self].cls].caps
    /\ LET u == uri(objs[self])
       IN IF u.err THEN UriFails("delete", self, <<>>)
          ELSE Remove("delete", self, <<>>,
                      request(objs[self], "DELETE", u.val, "", <<>>), resp)

\* DeleteById.delete
DeleteById_delete(self, id, resp) ==
    /\ "DeleteById" \in Kinds[objs[self].cls].caps
    /\ LET u == uri(objs[self])
       IN IF u.err THEN UriFails("delete_by_id", self, <<id>>)
          ELSE Remove("delete_by_id", self, <<id>>,
                      request(objs[self], "DELETE", u.val \o <<"/">> \o Format(id),
                              "", <<>>), resp)

\* A caller hands a payload to a collection: c.instantiate_from_data(data).
InstantiateFromData(self, body) ==
    /\ steps < MaxSteps
    /\ steps' = steps + 1
    /\ Kinds[objs[self].cls].type = "Collection"
    /\ Instantiated("instantiate_from_data", self, <<body>>, <<>>, Raised,
          Collection_instantiate_from_data(objs, _internal_attrs, objs[self], body))

Next ==
    \/ \E cls \in ResourceKinds, tr \in ResourceTransports, d \in GoodDatas, p \in ResourceParents :
          ConstructResource(cls, tr, d, p)
    \/ \E cls \in CollectionKinds, tr \in Transports, p \in Parents :
          ConstructCollection(cls, tr, p)
    \/ \E self \in DOMAIN objs, k \in Keys : \E v \in SetValues(k) : SetAttr(self, k, v)
    \/ \E self \in DOMAIN objs, resp \in SingleResponses : Get_get(self, resp)
    \/ \E self \in DOMAIN objs, id \in Ids, resp \in SingleResponses :
          GetById_get(self, id, resp)
    \/ \E self \in DOMAIN objs, params \in Params, resp \in ListResponses :
          List_all(self, params, resp)
    \/ \E self \in DOMAIN objs, body \in GoodDatas, resp \in SingleResponses :
          Create_create(self, body, resp)
    \/ \E self \in DOMAIN objs, resp \in DeleteResponses : Delete_delete(self, resp)
    \/ \E self \in DOMAIN objs, id \in Ids, resp \in DeleteResponses :
          DeleteById_delete(self, id, resp)
    \/ \E self \in DOMAIN objs, ds \in ListsOf(ItemDatas) :
          InstantiateFromData(self, Many(ds))
    \/ \E self \in DOMAIN objs, d \in ItemDatas : InstantiateFromData(self, One(d))

Spec == Init /\ [][Next]_vars

(* ------------------------------ claims --------------------------------- *)

Resources == {r \in DOMAIN objs : Kinds[objs[r].cls].type = "Resource"}

Collections == {c \in DOMAIN objs : Kinds[objs[c].cls].type = "Collection"}

\* A string with one leading slash, then one trailing slash, taken off.
TrimOne(str) ==
    LET a == IF str # <<>> /\ Head(str) = "/" THEN Tail(str) ELSE str
    IN IF a # <<>> /\ a[Len(a)] = "/" THEN SubSeq(a, 1, Len(a) - 1) ELSE a

ParentPart(o) ==
    IF o.parent.t = "str" /\ o.parent.s # <<>> THEN <<"/">> \o TrimOne(o.parent.s) ELSE <<>>

\* C1: the uri of a Record is ["/" + trimmed parent] + "/" + endpoint +
\* ["/" + pk], the pk segment only for a non-singleton kind; "/E/1" for a
\* non-singleton record with id 1 and no parent, "/P/E" for a singleton
\* nested under "/P", with or without an id field.
C1_RecordUri ==
    \A r \in Resources :
       LET o == objs[r]
           k == Kinds[o.cls]
       IN /\ (k.singleton \/ HasAttr(o, k.identifier)) =>
               /\ ~Resource_uri(o).err
               /\ Resource_uri(o).val =
                     ParentPart(o) \o <<"/">> \o k.endpoint \o
                     (IF k.singleton THEN <<>>
                      ELSE <<"/">> \o Format(o.attrs[k.identifier]))
          /\ (~k.singleton /\ HasAttr(o, "id") /\ o.attrs["id"] = IntV(1)
              /\ o.parent = NoneV) =>
               Resource_uri(o).val = <<"/">> \o k.endpoint \o <<"/", "1">>
          /\ (k.singleton /\ o.parent = StrV(<<"/", "stores", "/", "1">>)) =>
               Resource_uri(o).val = <<"/", "stores", "/", "1", "/">> \o k.endpoint

\* A singleton nested under "/stores/1" that carries an id field.
C1_Witness ==
    \E r \in Resources :
       /\ Kinds[objs[r].cls].singleton
       /\ objs[r].owner # 0
       /\ objs[r].parent = StrV(<<"/", "stores", "/", "1">>)
       /\ HasAttr(objs[r], "id")

C3_IdRequired ==
    (last.op \in {"get_by_id", "delete_by_id"} /\ last.arg[1] = NoneV) =>
       /\ last.status = "InputError"
       /\ last.calls = <<>>

\* C4: when the transport returns (body, status), both deletes return true
\* exactly for status 204 and raise nothing.
C4_DeleteResult ==
    (last.op \in {"delete", "delete_by_id"} /\ last.calls # <<>> /\ ~last.resp.raised) =>
       /\ last.status = "ok"
       /\ last.flag <=> (last.resp.status = 204)

\* A delete answered with status 200 and a body returned false.
C4_Witness ==
    /\ last.op \in {"delete", "delete_by_id"}
    /\ ~last.resp.raised
    /\ last.resp.status = 200
    /\ DOMAIN last.resp.body.items[1] # {}
    /\ ~last.flag

\* C5: right after a Record is constructed from a data mapping, the keys of
\* to_dict() are exactly the keys of the mapping, and none of them is the
\* transport, the parent or the name of a nested sub-resource.  (Stated for
\* data that does not use the names of the kind's own nested sub-resources,
\* where the two halves of the claim can hold together.)
C5_ToDictKeys ==
    (/\ last.op = "Resource"
     /\ last.status = "ok"
     /\ DOMAIN last.arg[1] \cap SubAttrNames(objs[last.ret[1]].cls) = {}) =>
       LET o == objs[last.ret[1]]
       IN /\ DOMAIN to_dict(o) = DOMAIN last.arg[1]
          /\ DOMAIN to_dict(o) \cap ({"transport", "parent"} \cup SubAttrNames(o.cls)) = {}

\* C6: instantiate_from_data of a Collection on a list of N mappings returns
\* N Records in the order of the list, each of the collection's Record kind
\* with the collection's parent and transport; on a single mapping, one.
C6_InstantiateFromData ==
    last.op = "instantiate_from_data" =>
       LET c == objs[last.self]
           items == last.arg[1].items
       IN /\ last.status = "ok"
          /\ Len(last.ret) = Len(items)
          /\ ~last.arg[1].list => Len(last.ret) = 1
          /\ \A i \in DOMAIN last.ret :
                /\ objs[last.ret[i]].cls = Kinds[c.cls].resource
                /\ objs[last.ret[i]].parent = c.parent
                /\ objs[last.ret[i]].transport = c.transport
                /\ DOMAIN objs[last.ret[i]].attrs = DOMAIN items[i]
                /\ \A k \in DOMAIN items[i] : objs[last.ret[i]].attrs[k] = items[i][k]
          /\ \A i, j \in DOMAIN last.ret : last.ret[i] = last.ret[j] => i = j

\* A list of two different mappings became two Records.
C6_Witness ==
    /\ last.op = "instantiate_from_data"
    /\ last.arg[1].list
    /\ Len(last.ret) = 2
    /\ DOMAIN last.arg[1].items[1] # DOMAIN last.arg[1].items[2]
    /\ objs[last.self].parent # NoneV
    /\ objs[last.self].transport = 2

\* C7: constructing a Record of any kind with empty data succeeds and gives
\* an instance without data keys, on which reading pk fails.
C7_EmptyData ==
    (last.op = "Resource" /\ DOMAIN last.arg[1] = {}) =>
       /\ last.status = "ok"
       /\ objs[last.ret[1]].data_keys = {}
       /\ Resource_pk(objs[last.ret[1]]).err

\* C8: a collection with parent "stores/1" has uri "stores/1/<endpoint>",
\* without a leading slash.
C8_ShortcutUri ==
    \A c \in Collections :
       objs[c].parent = StrV(<<"stores", "/", "1">>) =>
          Collection_uri(objs[c]).val =
             <<"stores", "/", "1", "/">> \o Kinds[Kinds[objs[c].cls].resource].endpoint

\* C9: the tracked data keys and to_dict() of an instance a caller made are
\* what they would be had no other instance been constructed or modified.
C9_NoSharedState ==
    \A r \in Resources :
       objs[r].owner = 0 =>
          /\ objs[r].data_keys = objs[r].iso_keys
          /\ DOMAIN to_dict(objs[r]) = objs[r].iso_keys

Nested(heap, o) == {n \in DOMAIN heap : heap[n].owner = o}

\* C10: every declared sub-resource is instantiated once, when its owner is
\* constructed, with the owner's uri of that moment as parent; no later step
\* instantiates it again or changes its parent, and an assignment to the
\* owner leaves its uri unchanged even when the owner's own uri changes.
C10_NestedFixed ==
    [][/\ \A o \in DOMAIN objs' \ DOMAIN objs :
             Kinds[objs'[o].cls].type = "Resource" =>
                LET subs == Kinds[objs'[o].cls].subresources
                IN /\ Cardinality(Nested(objs', o)) = Len(subs)
                   /\ \A i \in DOMAIN subs :
                         \E n \in Nested(objs', o) :
                            /\ objs'[n].cls = subs[i]
                            /\ objs'[n].parent = StrV(Resource_uri(objs'[o]).val)
                            /\ objs'[o].attrs[attr_name(subs[i])] = ObjV(n)
       /\ \A o \in DOMAIN objs :
             /\ Nested(objs', o) = Nested(objs, o)
             /\ \A n \in Nested(objs, o) :
                   /\ objs'[n].parent = objs[n].parent
                   /\ (last'.op = "setattr" /\ last'.self = o) =>
                         uri(objs'[n]) = uri(objs[n])
             /\ (/\ last'.op = "setattr" /\ last'.self = o
                 /\ last'.arg[1] = Kinds[objs[o].cls].identifier
                 /\ ~Kinds[objs[o].cls].singleton
                 /\ HasAttr(objs[o], last'.arg[1])
                 /\ Format(last'.arg[2]) # Format(objs[o].attrs[last'.arg[1]])) =>
                   uri(objs'[o]) # uri(objs[o])
      ]_vars

\* The owner's id was reassigned and its sub-resources keep the old parent.
C10_Witness ==
    /\ last.op = "setattr"
    /\ last.arg[1] = "id"
    /\ Nested(objs, last.self) # {}
    /\ \A n \in Nested(objs, last.self) :
          /\ objs[n].parent # StrV(Resource_uri(objs[last.self]).val)
          /\ uri(objs[n]).val = <<"/", "stores", "/", "1", "/">> \o
                IF objs[n].cls = "Theme" THEN <<"theme">> ELSE <<"cards">>

====
